---------------------------- MODULE Spec2Model ----------------------------
(***************************************************************************)
(* Regional-jet mission sizing (src/sizing.py, src/configs.py).            *)
(*                                                                         *)
(* The program computes in IEEE doubles.  The model computes in decimal    *)
(* fixed point: a dimensionless quantity, a speed, a pressure, a time or a *)
(* wing loading x is held as the integer nearest to x * Scale; a weight is *)
(* held as a whole number of pounds; altitudes, ranges and wing areas are  *)
(* whole numbers of their unit.  Every arithmetic step rounds to nearest,  *)
(* as a double operation does at its own precision.                        *)
(*                                                                         *)
(* A value the program assigns once and reads several times is passed as   *)
(* an operator argument or bound by \E x \in {e}, so that it is computed   *)
(* once.                                                                   *)
(***************************************************************************)
EXTENDS Integers, Sequences, FiniteSets, TLC

\* ------------------------------------------------------------------------
\* Fixed-point arithmetic standing for the float arithmetic of sizing.py
\* ------------------------------------------------------------------------

\* One unit in the last place of a fixed-point quantity is 1/Scale.
Scale == 10000

\* Python's None (an absent optional field).
None == -1

Abs(x) == IF x < 0 THEN -x ELSE x

Sgn(x) == IF x < 0 THEN -1 ELSE 1

\* Largest machine integer of the checker; products are split so that no
\* intermediate value passes it.
MaxInt == 2147483647

\* <<q, r>> with a*b = q*c + r and 0 <= r < c, for 0 <= a < c, b >= 0.
RECURSIVE DivMod(_, _, _)
RECURSIVE DivModStep(_, _, _, _)
DivMod(a, b, c) ==
    IF a = 0 \/ b = 0 THEN <<0, 0>>
    ELSE IF a <= MaxInt \div b THEN <<(a * b) \div c, (a * b) % c>>
    ELSE DivModStep(a, b, c, DivMod(a, b \div 2, c))

\* From h = DivMod(a, b \div 2, c) to DivMod(a, b, c).
DivModStep(a, b, c, h) ==
    <<2 * h[1] + (2 * h[2] + (b % 2) * a) \div c,
      (2 * h[2] + (b % 2) * a) % c>>

\* q + r/c rounded to nearest, for d = <<q, r>>.
RoundUp(d, c) == d[1] + (IF 2 * d[2] >= c THEN 1 ELSE 0)

\* a*b/c rounded to nearest, for a, b >= 0 and c > 0.
MulDivN(a, b, c) == (a \div c) * b + RoundUp(DivMod(a % c, b, c), c)

\* a*b/c rounded to nearest (ties away from zero), any signs, c # 0.
MulDiv(a, b, c) ==
    Sgn(a) * Sgn(b) * Sgn(c) * MulDivN(Abs(a), Abs(b), Abs(c))

\* x * y of two fixed-point quantities.
FMul(x, y) == MulDiv(x, y, Scale)

\* x / y of two fixed-point quantities.
FDiv(x, y) == MulDiv(x, Scale, y)

\* ln 2 to seven decimals, and k ln 2 in fixed point.
Ln2e7 == 6931472

KLn2(k) == Sgn(k) * ((Abs(k) * Ln2e7 + 500) \div 1000)

RECURSIVE Pow2(_)
Pow2(k) == IF k <= 0 THEN 1 ELSE 2 * Pow2(k - 1)

\* sum_{j >= n} r^j / j! given term = r^n / n!.
RECURSIVE ExpSeries(_, _, _)
ExpSeries(r, term, n) ==
    IF term = 0 \/ n > 12 THEN 0
    ELSE term + ExpSeries(r, MulDiv(term, r, n * Scale), n + 1)

\* floor(x / ln 2)
ExpShift(x) ==
    IF x >= 0 THEN (x * 1000) \div Ln2e7
    ELSE -((-x * 1000 + Ln2e7 - 1) \div Ln2e7)

\* e * 2^k
Shift2(e, k) ==
    IF k >= 0 THEN e * Pow2(k)
    ELSE IF k < -30 THEN 0
    ELSE MulDivN(e, 1, Pow2(-k))

\* exp(x) for x = k ln 2 + r with 0 <= r < ln 2: 2^k exp(r).
ExpReduced(x, k) == Shift2(ExpSeries(x - KLn2(k), Scale, 1), k)

\* math.exp(x)
FExp(x) == ExpReduced(x, ExpShift(x))

\* Largest k >= 0 with d * 2^k <= n, for n >= d > 0.
RECURSIVE Log2Floor(_, _)
Log2Floor(n, d) == IF n \div 2 >= d THEN 1 + Log2Floor(n \div 2, d) ELSE 0

\* sum_{odd j >= n} y^j / j given pw = y^n (y to one more decimal).
RECURSIVE AtanhSeries(_, _, _)
AtanhSeries(y2, pw, n) ==
    IF pw = 0 \/ n > 15 THEN 0
    ELSE pw \div n + AtanhSeries(y2, FMul(pw, y2), n + 2)

\* 2 atanh(y), y to one more decimal than Scale.
TwoAtanh(y) ==
    MulDivN(2 * AtanhSeries(MulDiv(y, y, Scale * 100), y, 1), 1, 10)

\* ln(n/d) for 1 <= n/d < 2: 2 atanh((n - d)/(n + d)).
LnMantissa(n, d) == TwoAtanh(MulDiv(n - d, Scale * 10, n + d))

\* ln(n/d) for n/d = m 2^k, 1 <= m < 2.
LnShifted(n, d, k) == KLn2(k) + LnMantissa(n, d * Pow2(k))

\* math.log of the ratio n/d (n, d > 0), in fixed point.
LnRatio(n, d) ==
    IF n >= d THEN LnShifted(n, d, Log2Floor(n, d))
    ELSE -LnShifted(d, n, Log2Floor(d, n))

\* Python's base ** exponent for a positive base n/d and a fixed-point exponent.
PowRatio(n, d, c) == FExp(FMul(c, LnRatio(n, d)))

\* x ** c for a fixed-point x > 0.
FPow(x, c) == PowRatio(x, Scale, c)

\* math.sqrt of the positive ratio n/d.
SqrtRatio(n, d) == PowRatio(n, d, Scale \div 2)

\* ------------------------------------------------------------------------
\* Constants and standard atmosphere
\* ------------------------------------------------------------------------

\* 1 nautical mile in thousandths of a foot (6076.115 ft).
NM_TO_FT == 6076115

\* gamma = 1.4
GAMMA_AIR == 14000

\* Gas constant for air, 1716.49 ft lbf/(slug R).
R_AIR == 17164900

\* math.pi
Pi == 31416

\* Sea-level temperature 518.67 R.
T_SL == 5186700

\* Sea-level pressure 2116.22 psf.
P_SL == 21162200

\* Troposphere lapse rate 0.003566 R/ft, in units of 1e-6 R/ft.
LAPSE == 3566

\* Tropopause altitude [ft].
TROPO == 36089

\* Exponent 5.2561 of the pressure law.
PressureExp == 52561

\* Stratosphere decay rate 4.806e-5 per ft, in units of 1e-8 per ft.
StratoDecay == 4806

\* T = T_SL - LAPSE * altitude_ft up to the tropopause, T_trop above it.
Temperature(altitude_ft) ==
    T_SL - MulDiv(LAPSE, IF altitude_ft <= TROPO THEN altitude_ft ELSE TROPO, 100)

\* P = P_trop * exp(-4.806e-5 (altitude_ft - TROPO)) above the tropopause.
StratoPressure(P_trop, altitude_ft) ==
    IF altitude_ft <= TROPO THEN P_trop
    ELSE FMul(P_trop, FExp(-MulDiv(StratoDecay, altitude_ft - TROPO, Scale)))

\* P = P_SL * (T / T_SL) ** 5.2561 up to the tropopause.
Pressure(altitude_ft) ==
    StratoPressure(FMul(P_SL, PowRatio(Temperature(altitude_ft), T_SL, PressureExp)),
                   altitude_ft)

\* a = sqrt(gamma R T)
SpeedOfSound(T) ==
    SqrtRatio(MulDiv(FMul(GAMMA_AIR, R_AIR), T, Scale * Scale), 1)

\* ISA temperature, pressure and speed of sound at a whole number of feet.
\* (The density the function also returns is read by nothing in the program.)
standard_atmosphere(altitude_ft) ==
    [temperature_R |-> Temperature(altitude_ft),
     pressure_psf |-> Pressure(altitude_ft),
     speed_of_sound_fps |-> SpeedOfSound(Temperature(altitude_ft))]

\* q = 0.5 * gamma * P * M^2  [psf].
dynamic_pressure(mach, altitude_ft) ==
    FMul(FMul(FMul(Scale \div 2, GAMMA_AIR),
              standard_atmosphere(altitude_ft).pressure_psf),
         FMul(mach, mach))

\* ------------------------------------------------------------------------
\* Data model: properties of Engine and AircraftConfig
\* ------------------------------------------------------------------------

SegmentTypes == {"WARMUP_TAKEOFF", "CLIMB", "CRUISE", "LOITER", "LANDING"}

\* Engine.total_max_thrust [lbs].
total_max_thrust(engine) == engine.max_thrust_per_engine * engine.num_engines

\* AircraftConfig.cruise_velocity_fps
cruise_velocity_fps(c) ==
    FMul(c.cruise_mach, standard_atmosphere(c.cruise_altitude_ft).speed_of_sound_fps)

\* AircraftConfig.cruise_q
cruise_q(c) == dynamic_pressure(c.cruise_mach, c.cruise_altitude_ft)

\* 1 / (q CD0/(W/S) + (W/S)/(q pi A e)) at dynamic pressure q.
DragPolar(c, q, wing_loading) ==
    FDiv(Scale,
         FDiv(FMul(q, c.cd0), wing_loading)
         + FDiv(wing_loading, FMul(FMul(FMul(q, Pi), c.aspect_ratio), c.oswald_e)))

\* AircraftConfig.ld_from_drag_polar
ld_from_drag_polar(c, wing_loading) == DragPolar(c, cruise_q(c), wing_loading)

\* AircraftConfig.ld_max: 1 / (2 sqrt(CD0 / (pi A e))).
ld_max(c) ==
    FDiv(Scale,
         2 * SqrtRatio(c.cd0, FMul(FMul(Pi, c.aspect_ratio), c.oswald_e)))

\* ------------------------------------------------------------------------
\* Weight fractions (Raymer ch. 6)
\* ------------------------------------------------------------------------

\* Wi/Wi-1 = (1.0065 - 0.0325 M) / (1.0065 - 0.0325 * 0.1).
climb_weight_fraction(mach_end) ==
    FDiv(10065 - FMul(325, mach_end), 10065 - FMul(325, 1000))

\* range_nm * NM_TO_FT, a whole number of feet.
RangeFeet(range_nm) == MulDiv(range_nm, NM_TO_FT, 1000)

\* tsfc_hr / 3600.0, kept to 1/Scale^2 per second.
PerSecond(tsfc_hr) == MulDiv(tsfc_hr, Scale, 3600)

\* exp(-R_ft C_per_s / (V L/D)) and R_ft / V.
Breguet(R_ft, C_per_s, velocity_fps, ld_ratio) ==
    [wf |-> FExp(-FDiv(MulDiv(R_ft, C_per_s, Scale), FMul(velocity_fps, ld_ratio))),
     cruise_time_s |-> MulDiv(R_ft, Scale * Scale, velocity_fps)]

\* Breguet range: Wi/Wi-1 and the cruise time [s]; range_nm a whole number.
cruise_weight_fraction(range_nm, tsfc_hr, velocity_fps, ld_ratio) ==
    Breguet(RangeFeet(range_nm), PerSecond(tsfc_hr), velocity_fps, ld_ratio)

\* Breguet endurance: Wi/Wi-1; endurance_min in fixed-point minutes.
loiter_weight_fraction(endurance_min, tsfc_hr, ld_ratio) ==
    FExp(-FDiv(MulDiv(endurance_min * 60, PerSecond(tsfc_hr), Scale * Scale),
               ld_ratio))

\* Simple regression We/W0 = A W0^C Kvs composite (A = 1.272, C = -0.072).
empty_weight_fraction_ch3(w0, Kvs, composite_factor) ==
    FMul(FMul(FMul(12720, PowRatio(w0, 1, -720)), Kvs), composite_factor)

\* Refined regression
\* We/W0 = a W0^C1 A^C2 (T/W0)^C3 (W0/S)^C4 Mmax^C5 Kvs composite.
empty_weight_fraction_ch6(w0, c, tw_ratio, wing_loading) ==
    FMul(FMul(FMul(FMul(FMul(FMul(FMul(
        c.ew_a,
        PowRatio(w0, 1, c.ew_C1)),
        FPow(c.aspect_ratio, c.ew_C2)),
        FPow(tw_ratio, c.ew_C3)),
        FPow(wing_loading, c.ew_C4)),
        FPow(c.mach_max, c.ew_C5)),
        c.Kvs),
        c.composite_factor)

\* ------------------------------------------------------------------------
\* Mission walker
\* ------------------------------------------------------------------------

\* tsfc = config.engine.tsfc_loiter if seg.use_loiter_sfc else tsfc_cruise
SegmentTsfc(config, seg) ==
    IF seg.use_loiter_sfc THEN config.engine.tsfc_loiter
                          ELSE config.engine.tsfc_cruise

\* Fault: the segment's use_max_ld flag is ignored.
CruiseLdOnly(seg, ld_cruise, ld_loiter) == ld_cruise

\* ld = ld_loiter if seg.use_max_ld else ld_cruise
SegmentLd(seg, ld_cruise, ld_loiter) ==
    IF seg.use_max_ld THEN ld_loiter ELSE ld_cruise

\* wf, cruise_time = cruise_weight_fraction(...); ld_used = ld
CruiseLeg(r, ld) ==
    [wf |-> r.wf, cruise_time |-> r.cruise_time_s, ld_used |-> ld]

\* The weight fraction, cruise time and L/D the walker applies to one segment
\* (the body of the dispatch on seg.segment_type).
SegmentFraction(config, seg, ld_cruise, ld_loiter) ==
    CASE seg.segment_type = "WARMUP_TAKEOFF" ->
           [wf |-> seg.weight_fraction, cruise_time |-> None, ld_used |-> None]
      [] seg.segment_type = "CLIMB" ->
           [wf |-> IF seg.weight_fraction # None
                   THEN seg.weight_fraction
                   ELSE climb_weight_fraction(config.cruise_mach),
            cruise_time |-> None, ld_used |-> None]
      [] seg.segment_type = "CRUISE" ->
           CruiseLeg(cruise_weight_fraction(seg.range_nm,
                                            SegmentTsfc(config, seg),
                                            cruise_velocity_fps(config),
                                            SegmentLd(seg, ld_cruise, ld_loiter)),
                     SegmentLd(seg, ld_cruise, ld_loiter))
      [] seg.segment_type = "LOITER" ->
           [wf |-> loiter_weight_fraction(seg.endurance_min,
                                          SegmentTsfc(config, seg),
                                          SegmentLd(seg, ld_cruise, ld_loiter)),
            cruise_time |-> None,
            ld_used |-> SegmentLd(seg, ld_cruise, ld_loiter)]
      [] seg.segment_type = "LANDING" ->
           [wf |-> seg.weight_fraction, cruise_time |-> None, ld_used |-> None]

\* Fault: the fuel recorded is the weight that remains.
FuelRemaining(w_current, wf) == MulDiv(w_current, wf, Scale)

\* fuel_burned = w_current * (1.0 - wf), in pounds.
FuelBurned(w_current, wf) == MulDiv(w_current, Scale - wf, Scale)

\* Fault: the running weight is not depleted.
WeightKept(w_current, wf) == w_current

\* w_current = w_current * wf, in pounds.
WeightAfter(w_current, wf) == MulDiv(w_current, wf, Scale)

\* SegmentResult(name=seg.name, ...) for a segment entered at w_current.
SegmentResult(seg, f, w_current) ==
    [name |-> seg.name,
     segment_type |-> seg.segment_type,
     weight_fraction |-> f.wf,
     fuel_burned |-> FuelBurned(w_current, f.wf),
     cruise_time_s |-> f.cruise_time,
     ld_used |-> f.ld_used]

\* The loop of compute_segment_results from segment k on, at running weight
\* w_current, appending to results; WalkStep is its body for the dispatch
\* outcome f of segment k.
RECURSIVE WalkFrom(_, _, _, _, _, _)
RECURSIVE WalkStep(_, _, _, _, _, _, _)
WalkFrom(config, k, w_current, ld_cruise, ld_loiter, results) ==
    IF k > Len(config.segments) THEN results
    ELSE WalkStep(config, k, w_current, ld_cruise, ld_loiter, results,
                  SegmentFraction(config, config.segments[k], ld_cruise, ld_loiter))

WalkStep(config, k, w_current, ld_cruise, ld_loiter, results, f) ==
    WalkFrom(config, k + 1, WeightAfter(w_current, f.wf), ld_cruise, ld_loiter,
             Append(results, SegmentResult(config.segments[k], f, w_current)))

\* Fault: the walk starts at the second segment.
WalkSkippingFirst(config, w_start, ld_cruise, ld_loiter) ==
    WalkFrom(config, 2, w_start, ld_cruise, ld_loiter, <<>>)

compute_segment_results(config, w_start, ld_cruise, ld_loiter) ==
    WalkFrom(config, 1, w_start, ld_cruise, ld_loiter, <<>>)

\* Fault: a field left at None is used as if it held a number.
NeverRaises(seg) == FALSE

\* The walker's step for seg raises TypeError: a CRUISE whose range_nm is
\* None (range_nm * NM_TO_FT), a LOITER whose endurance_min is None
\* (endurance_min * 60.0), a WARMUP_TAKEOFF or LANDING whose weight_fraction
\* is None (1.0 - wf). A CLIMB without weight_fraction computes its own.
Raises(seg) ==
    CASE seg.segment_type = "CRUISE" -> seg.range_nm = None
      [] seg.segment_type = "LOITER" -> seg.endurance_min = None
      [] seg.segment_type \in {"WARMUP_TAKEOFF", "LANDING"} ->
           seg.weight_fraction = None
      [] OTHER -> FALSE

\* The segment at which the loop of compute_segment_results over segments
\* raises, counting from k: the first one whose step raises; 0 when the loop
\* runs to its end. No try statement anywhere catches the exception.
RECURSIVE RaisedFrom(_, _)
RaisedFrom(segments, k) ==
    IF k > Len(segments) THEN 0
    ELSE IF Raises(segments[k]) THEN k
    ELSE RaisedFrom(segments, k + 1)

RaisedAt(segments) == RaisedFrom(segments, 1)

\* min(n, len(seg_results)), the end of the slice seg_results[:n].
SliceEnd(seg_results, n) == IF n < Len(seg_results) THEN n ELSE Len(seg_results)

\* sum(sr.fuel_burned for sr in seg_results[:n])
RECURSIVE SumFuel(_, _)
SumFuel(seg_results, n) ==
    IF n <= 0 \/ Len(seg_results) = 0 THEN 0
    ELSE seg_results[SliceEnd(seg_results, n)].fuel_burned
         + SumFuel(seg_results, SliceEnd(seg_results, n) - 1)

\* ------------------------------------------------------------------------
\* Expressions the solver loop, the final breakdown and the evaluator share
\* ------------------------------------------------------------------------

\* tw = config.engine.total_max_thrust / w0
ThrustToWeight(config, w0) == MulDiv(total_max_thrust(config.engine), Scale, w0)

\* ws = w0 / config.wing_area_ft2
WingLoading(config, w0) == MulDiv(w0, Scale, config.wing_area_ft2)

\* Fault: the trapped-fuel factor is left out of the total fuel.
UntrappedFuel(config, seg_results) == SumFuel(seg_results, Len(seg_results))

\* config.trapped_fuel_factor * mission_fuel, in pounds.
TotalFuel(config, seg_results) ==
    MulDiv(SumFuel(seg_results, Len(seg_results)), config.trapped_fuel_factor, Scale)

\* The solver's choice of empty-weight regression.
SolverEmptyFraction(config, use_ch6_weights, w0, tw, ws) ==
    IF use_ch6_weights
    THEN empty_weight_fraction_ch6(w0, config, tw, ws)
    ELSE empty_weight_fraction_ch3(w0, config.Kvs, config.composite_factor)

\* The fields of SizingResult both return statements fill alike, from the
\* locals s and the three fields f that differ (converged, iterations,
\* weight_margin).
SizingResult(config, s, f) ==
    [config_name |-> config.name,
     converged |-> f.converged,
     iterations |-> f.iterations,
     w0 |-> s.w0,
     we |-> MulDiv(s.w0, s.we_frac, Scale),
     wf |-> TotalFuel(config, s.seg_results),
     w_crew |-> config.crew_weight,
     w_payload |-> config.payload_weight,
     we_frac |-> s.we_frac,
     wf_frac |-> MulDiv(TotalFuel(config, s.seg_results), Scale, s.w0),
     trip_fuel |-> SumFuel(s.seg_results, config.reserve_after_segment),
     reserve_fuel |-> TotalFuel(config, s.seg_results)
                      - SumFuel(s.seg_results, config.reserve_after_segment),
     segment_results |-> s.seg_results,
     thrust_to_weight |-> s.tw,
     wing_loading |-> s.ws,
     ld_cruise |-> s.ld_cruise,
     ld_max |-> s.ld_max_val,
     growth_factor |-> MulDiv(s.w0, Scale, config.payload_weight),
     weight_margin |-> f.weight_margin]

\* ------------------------------------------------------------------------
\* solve_takeoff_weight: one pass of the loop
\* ------------------------------------------------------------------------

\* Fault: the test on the denominator is missing.
NeverNonPhysical(denom) == FALSE

\* if denom <= 0: break
NonPhysical(denom) == denom <= 0

\* Fault: a change equal to the tolerance counts as converged.
AtMostTolerance(w0_new, w0, tolerance) == Abs(w0_new - w0) <= tolerance

\* if abs(w0_new - w0) < tolerance
WithinTolerance(w0_new, w0, tolerance) == Abs(w0_new - w0) < tolerance

\* Fault: the loop runs one pass more than max_iter.
InRangeInclusive(i, max_iter) == i <= max_iter

\* for i in range(max_iter): whether pass number i (from 0) runs.
InRange(i, max_iter) == i < max_iter

\* tw and ws at the current guess.
LoopLoads(config, w0) ==
    [w0 |-> w0, tw |-> ThrustToWeight(config, w0), ws |-> WingLoading(config, w0)]

\* ld_cruise, ld_max_val and we_frac from tw and ws.
LoopAero(config, use_ch6_weights, s) ==
    s @@ [ld_cruise |-> ld_from_drag_polar(config, s.ws),
          ld_max_val |-> ld_max(config),
          we_frac |-> SolverEmptyFraction(config, use_ch6_weights, s.w0, s.tw, s.ws)]

\* seg_results of the walk at the current guess.
LoopMission(config, s) ==
    s @@ [seg_results |->
             compute_segment_results(config, s.w0, s.ld_cruise, s.ld_max_val)]

\* total_fuel and wf_frac.
LoopFuel(config, s) ==
    s @@ [total_fuel |-> TotalFuel(config, s.seg_results),
          wf_frac |-> MulDiv(TotalFuel(config, s.seg_results), Scale, s.w0)]

\* denom = 1.0 - wf_frac - we_frac
Denom(s) == Scale - s.wf_frac - s.we_frac

\* Fault: the crew is left out of the weight the sizing equation carries.
PayloadAlone(config) == config.payload_weight

\* config.crew_weight + config.payload_weight, the numerator of the sizing
\* equation.
FixedWeight(config) == config.crew_weight + config.payload_weight

\* The sizing equation: denom, and w0_new when the loop does not break on it.
LoopSizing(config, s) ==
    s @@ [denom |-> Denom(s),
          w0_new |-> IF NonPhysical(Denom(s)) THEN None
                     ELSE MulDiv(FixedWeight(config), Scale, Denom(s))]

\* The locals of one pass of the solver loop at guess w0.
LoopPass(config, use_ch6_weights, w0) ==
    LoopSizing(config,
      LoopFuel(config,
        LoopMission(config,
          LoopAero(config, use_ch6_weights,
            LoopLoads(config, w0)))))

\* Fault: the next guess is W0_new itself, without damping.
UndampedUpdate(w0_new, w0) == w0_new

\* Fault: the next guess is the change of the weight, W0_new less the guess.
DifferenceUpdate(w0_new, w0) == w0_new - w0

\* w0 = 0.75 * w0_new + 0.25 * w0
DampedUpdate(w0_new, w0) == MulDiv(7500, w0_new, Scale) + MulDiv(2500, w0, Scale)

\* ------------------------------------------------------------------------
\* solve_takeoff_weight: the final weight breakdown
\* ------------------------------------------------------------------------

\* tw_final and ws_final at the w0 the loop left.
FinalLoads(config, w0) ==
    [w0 |-> w0, tw |-> ThrustToWeight(config, w0), ws |-> WingLoading(config, w0)]

\* ld_cruise, ld_max_val and we_frac, recomputed.
FinalAero(config, use_ch6_weights, s) ==
    s @@ [ld_cruise |-> ld_from_drag_polar(config, s.ws),
          ld_max_val |-> ld_max(config),
          we_frac |-> SolverEmptyFraction(config, use_ch6_weights, s.w0, s.tw, s.ws)]

\* seg_results of the mission re-run at the final w0.
FinalMission(config, s) ==
    s @@ [seg_results |->
             compute_segment_results(config, s.w0, s.ld_cruise, s.ld_max_val)]

\* Fault: the breakdown keeps what the last pass of the loop left in
\* seg_results, ld_cruise, ld_max_val and we_frac.
StaleLocals(config, sv) ==
    [w0 |-> sv.w0,
     tw |-> ThrustToWeight(config, sv.w0),
     ws |-> WingLoading(config, sv.w0),
     ld_cruise |-> sv.ld_cruise,
     ld_max_val |-> sv.ld_max_val,
     we_frac |-> sv.we_frac,
     seg_results |-> sv.seg_results]

\* The locals of the final breakdown for the solver locals sv.
FinalLocals(config, sv) ==
    FinalMission(config,
      FinalAero(config, sv.use_ch6_weights,
        FinalLoads(config, sv.w0)))

\* The SizingResult solve_takeoff_weight returns (weight_margin keeps its
\* default 0.0).
FinalBreakdown(config, sv) ==
    SizingResult(config, FinalLocals(config, sv),
                 [converged |-> sv.converged, iterations |-> sv.iterations,
                  weight_margin |-> 0])

\* ------------------------------------------------------------------------
\* evaluate_fixed_w0
\* ------------------------------------------------------------------------

\* Fault: the evaluator uses the simple regression.
SimpleEmptyFraction(config, w0, tw, ws) ==
    empty_weight_fraction_ch3(w0, config.Kvs, config.composite_factor)

\* The empty-weight fraction of the fixed-weight evaluator.
EvaluatorEmptyFraction(config, w0, tw, ws) ==
    empty_weight_fraction_ch6(w0, config, tw, ws)

\* Fault: the payload is left out of the margin.
MarginWithoutPayload(config, w0, we, wf) ==
    w0 - we - wf - config.crew_weight

\* margin = w0 - we - wf - crew_weight - payload_weight
WeightMargin(config, w0, we, wf) ==
    w0 - we - wf - config.crew_weight - config.payload_weight

\* tw and ws at the fixed w0.
EvalLoads(config, w0) ==
    [w0 |-> w0, tw |-> ThrustToWeight(config, w0), ws |-> WingLoading(config, w0)]

\* ld_cruise, ld_max_val and we_frac.
EvalAero(config, s) ==
    s @@ [ld_cruise |-> ld_from_drag_polar(config, s.ws),
          ld_max_val |-> ld_max(config),
          we_frac |-> EvaluatorEmptyFraction(config, s.w0, s.tw, s.ws)]

\* seg_results of the walk at the fixed w0.
EvalMission(config, s) ==
    s @@ [seg_results |->
             compute_segment_results(config, s.w0, s.ld_cruise, s.ld_max_val)]

\* margin from the locals s.
EvalMargin(config, s) ==
    WeightMargin(config, s.w0, MulDiv(s.w0, s.we_frac, Scale),
                 TotalFuel(config, s.seg_results))

\* closes = margin >= 0.0, iterations = 0.
EvalResult(config, s) ==
    SizingResult(config, s,
                 [converged |-> EvalMargin(config, s) >= 0, iterations |-> 0,
                  weight_margin |-> EvalMargin(config, s)])

evaluate_fixed_w0(config, w0) ==
    EvalResult(config, EvalMission(config, EvalAero(config, EvalLoads(config, w0))))

\* ------------------------------------------------------------------------
\* Configurations (src/configs.py)
\* ------------------------------------------------------------------------

\* MissionSegment(name, segment_type, ...) with the dataclass defaults.
MissionSegment(name, segment_type) ==
    [name |-> name, segment_type |-> segment_type, weight_fraction |-> None,
     range_nm |-> None, endurance_min |-> None,
     use_loiter_sfc |-> FALSE, use_max_ld |-> FALSE]

_cruise_velocity_fps(mach, altitude_ft) ==
    FMul(mach, standard_atmosphere(altitude_ft).speed_of_sound_fps)

\* Fault: the contingency time is left in seconds.
Loiter1Seconds(range_nm, cruise_mach, cruise_alt, contingency_frac) ==
    FMul(MulDiv(RangeFeet(range_nm), Scale * Scale,
                _cruise_velocity_fps(cruise_mach, cruise_alt)),
         contingency_frac)

\* loiter_1_min = cruise_time_s * contingency_frac / 60 with
\* cruise_time_s = range_nm * NM_TO_FT / v_fps.
Loiter1Minutes(range_nm, cruise_mach, cruise_alt, contingency_frac) ==
    MulDiv(FMul(MulDiv(RangeFeet(range_nm), Scale * Scale,
                       _cruise_velocity_fps(cruise_mach, cruise_alt)),
                contingency_frac),
           1, 60)

\* The nine legs, given the two values computed before the list is built.
\* A name that formats a number is the tuple of its text and that number.
InternationalLegs(range_nm, alternate_nm, loiter_1_min, loiter_2_min, climb_wf) ==
    << [MissionSegment(<<"Warmup & Takeoff">>, "WARMUP_TAKEOFF")
           EXCEPT !.weight_fraction = 9700],
       MissionSegment(<<"Climb & Accelerate">>, "CLIMB"),
       [MissionSegment(<<"Cruise to Destination", range_nm>>, "CRUISE")
           EXCEPT !.range_nm = range_nm],
       [MissionSegment(<<"Loiter 1", MulDiv(loiter_1_min, 10, Scale)>>, "LOITER")
           EXCEPT !.endurance_min = loiter_1_min,
                  !.use_loiter_sfc = TRUE, !.use_max_ld = TRUE],
       [MissionSegment(<<"Attempt Landing">>, "LANDING")
           EXCEPT !.weight_fraction = 9950],
       [MissionSegment(<<"Climb (go-around)">>, "CLIMB")
           EXCEPT !.weight_fraction = climb_wf],
       [MissionSegment(<<"Divert to Alternate", alternate_nm>>, "CRUISE")
           EXCEPT !.range_nm = alternate_nm],
       [MissionSegment(<<"Loiter 2", MulDiv(loiter_2_min, 1, Scale)>>, "LOITER")
           EXCEPT !.endurance_min = loiter_2_min,
                  !.use_loiter_sfc = TRUE, !.use_max_ld = TRUE],
       [MissionSegment(<<"Land">>, "LANDING")
           EXCEPT !.weight_fraction = 9950] >>

\* FAR 121.645 international profile.
international_mission(range_nm, alternate_nm, cruise_mach, cruise_alt, loiter_2_min, contingency_frac) ==
    InternationalLegs(range_nm, alternate_nm,
                      Loiter1Minutes(range_nm, cruise_mach, cruise_alt,
                                     contingency_frac),
                      loiter_2_min,
                      climb_weight_fraction(cruise_mach))

\* Engine "PW1200G".
engine ==
    [name |-> "PW1200G", tsfc_cruise |-> 4800, tsfc_loiter |-> 3800,
     max_thrust_per_engine |-> 19190, num_engines |-> 2, bypass_ratio |-> 90000]

\* international_mission(range_nm, alternate_nm=200, cruise_mach=0.78,
\* cruise_alt=41000) with its defaults: 30 min hold, 10 % contingency.
DesignMission(range_nm) ==
    international_mission(range_nm, 200, 7800, 41000, 300000, 1000)

\* AircraftConfig(...) with the dataclass defaults, the shared engine,
\* composite_factor = 0.97 and _COMMON_AERO; the wing area 792.47 ft2 is held
\* as 792 and cd0 to four decimals.
AircraftConfig(name, payload_weight, crew_weight, cd0, segments, reserve_after_segment) ==
    [name |-> name,
     payload_weight |-> payload_weight, crew_weight |-> crew_weight,
     ew_a |-> 8690, ew_C1 |-> -370, ew_C2 |-> 3980, ew_C3 |-> 1000,
     ew_C4 |-> -1610, ew_C5 |-> 500, Kvs |-> 10000, composite_factor |-> 9700,
     aspect_ratio |-> 78000, cd0 |-> cd0, oswald_e |-> 7530,
     wing_area_ft2 |-> 792, mach_max |-> 8500,
     cruise_mach |-> 7800, cruise_altitude_ft |-> 41000,
     trapped_fuel_factor |-> 10600,
     segments |-> segments,
     reserve_after_segment |-> reserve_after_segment,
     engine |-> engine]

\* North America variant: 1850 nm.
na_composite ==
    AircraftConfig("NA Variant (Composite)", 18055, 788, 211,
                   DesignMission(1850), 5)

\* European variant: 1250 nm, heavier payload and crew.
eu_composite ==
    AircraftConfig("EU Variant (Composite)", 23380, 985, 219,
                   DesignMission(1250), 5)

\* The North America airframe flown over another design range.
LongRange(range_nm) ==
    AircraftConfig("NA Variant (Long Range)", 18055, 788, 211, DesignMission(range_nm), 5)

\* A short mission using every combination the walker dispatches on: a climb
\* with an override, cruise and loiter legs with either SFC and either L/D.
ShuttleMission ==
    << [MissionSegment(<<"Takeoff">>, "WARMUP_TAKEOFF") EXCEPT !.weight_fraction = 9800],
       [MissionSegment(<<"Climb">>, "CLIMB") EXCEPT !.weight_fraction = 9850],
       [MissionSegment(<<"Cruise out">>, "CRUISE")
           EXCEPT !.range_nm = 500, !.use_loiter_sfc = TRUE],
       [MissionSegment(<<"Cruise slow">>, "CRUISE")
           EXCEPT !.range_nm = 300, !.use_max_ld = TRUE],
       [MissionSegment(<<"Hold">>, "LOITER") EXCEPT !.endurance_min = 200000],
       [MissionSegment(<<"Hold low">>, "LOITER")
           EXCEPT !.endurance_min = 100000, !.use_loiter_sfc = TRUE],
       [MissionSegment(<<"Land">>, "LANDING") EXCEPT !.weight_fraction = 9950] >>

\* The North America airframe on the short mission, all of it trip fuel.
Shuttle == AircraftConfig("Shuttle", 18055, 788, 211, ShuttleMission, 9)

\* The short mission with one field of its leg k left at None.
BrokenMission(k, field) ==
    [ShuttleMission EXCEPT ![k] =
        [f \in DOMAIN ShuttleMission[k] |->
            IF f = field THEN None ELSE ShuttleMission[k][f]]]

\* Configurations whose mission has a malformed leg: a takeoff and a landing
\* without weight_fraction, a cruise without range_nm, a loiter without
\* endurance_min.
BrokenConfigs ==
    {AircraftConfig("Broken takeoff", 18055, 788, 211,
                    BrokenMission(1, "weight_fraction"), 9),
     AircraftConfig("Broken cruise", 18055, 788, 211,
                    BrokenMission(4, "range_nm"), 9),
     AircraftConfig("Broken loiter", 18055, 788, 211,
                    BrokenMission(5, "endurance_min"), 9),
     AircraftConfig("Broken landing", 18055, 788, 211,
                    BrokenMission(7, "weight_fraction"), 9)}

\* A configuration with no mission at all.
Ferry == AircraftConfig("Ferry", 18055, 788, 211, <<>>, 5)

\* The configurations the caller sizes.
Configs ==
    {na_composite, eu_composite, LongRange(3000), LongRange(4000),
     LongRange(5000), Shuttle, Ferry} \cup BrokenConfigs

\* ------------------------------------------------------------------------
\* The caller's arguments
\* ------------------------------------------------------------------------

\* The largest iteration cap the caller passes.
MaxIter == 10

\* max_iter arguments.
IterCaps == {0, 2, MaxIter}

\* w0_guess arguments, and the fixed weights handed to the evaluator [lbs].
Weights == {60000, 90000}

\* tolerance arguments [lbs].
Tolerances == {1, 400}

\* The brackets the caller hands to find_max_range, range_lo and range_hi in
\* whole nautical miles, the finest ranges the model tells apart, and
\* tolerance_nm in 1/Scale nm, a positive number that may be smaller than
\* that: a wide bracket, two around the design ranges and one no wider than
\* its tolerance, whose widths are a power of two times the tolerance, so
\* that every midpoint is a whole number of nautical miles; a bracket of
\* 4 nm around the design range with a tolerance of half a nautical mile,
\* finer than the ranges themselves; a bracket whose ends coincide and one
\* whose range_lo is above its range_hi.
Brackets ==
    {[range_lo |-> 100, range_hi |-> 4196, tolerance_nm |-> 128 * Scale],
     [range_lo |-> 1786, range_hi |-> 1914, tolerance_nm |-> 32 * Scale],
     [range_lo |-> 1186, range_hi |-> 1314, tolerance_nm |-> 32 * Scale],
     [range_lo |-> 500, range_hi |-> 564, tolerance_nm |-> 64 * Scale],
     [range_lo |-> 1848, range_hi |-> 1852, tolerance_nm |-> Scale \div 2],
     [range_lo |-> 2000, range_hi |-> 2000, tolerance_nm |-> Scale],
     [range_lo |-> 2000, range_hi |-> 1900, tolerance_nm |-> Scale]}

\* The most passes of the loop of find_max_range the model follows.
MaxEvals == 6

\* How far below a converged w0 the caller fixes the weight of a constrained
\* variant [lbs].
Shortfalls == {1, 1000}

\* ------------------------------------------------------------------------
\* State
\* ------------------------------------------------------------------------

VARIABLES
    config,   \* the AircraftConfig the caller holds and passes to every call
    given,    \* that configuration as the caller built it
    pc,       \* where the call in progress stands: "idle", "loop" or "final"
              \* (solve_takeoff_weight), "search" (find_max_range)
    sv,       \* arguments and locals of the current (or last) solver call
    hist,     \* one record per pass of the solver loop of that call
    res,      \* <<>> or <<the SizingResult the last solver call returned>>
    ev,       \* <<>> or <<[w0 |-> argument, r |-> result]>> of the last
              \* evaluate_fixed_w0 since the last solver call
    fm,       \* arguments, locals and return value of the last find_max_range
    built,    \* <<>> or <<the last call of international_mission>>
    prev,     \* <<>> or <<what the solver call before this one, made with the
              \* same arguments, went through and returned>>
    err       \* <<>> or <<the exception the last call ended with>>

vars == <<config, given, pc, sv, hist, res, ev, fm, built, prev, err>>

\* Fault: a call starts from the w0 the call before it returned.
WarmStartLocals(w0_guess, tolerance, max_iter, use_ch6_weights) ==
    [w0_guess |-> w0_guess, tolerance |-> tolerance,
     max_iter |-> max_iter, use_ch6_weights |-> use_ch6_weights,
     i |-> 0, w0 |-> IF res # <<>> THEN res[1].w0 ELSE w0_guess,
     converged |-> FALSE, iterations |-> 0,
     seg_results |-> <<>>, ld_cruise |-> 0, ld_max_val |-> 0,
     wf_frac |-> 0, we_frac |-> 0]

\* The locals of solve_takeoff_weight on entry.
Locals(w0_guess, tolerance, max_iter, use_ch6_weights) ==
    [w0_guess |-> w0_guess, tolerance |-> tolerance,
     max_iter |-> max_iter, use_ch6_weights |-> use_ch6_weights,
     i |-> 0, w0 |-> w0_guess, converged |-> FALSE, iterations |-> 0,
     seg_results |-> <<>>, ld_cruise |-> 0, ld_max_val |-> 0,
     wf_frac |-> 0, we_frac |-> 0]

\* The locals before any call.
NoCall == Locals(None, None, None, TRUE)

\* find_max_range before any call of it.
NoSearch ==
    [w0 |-> None, range_lo_0 |-> None, range_hi_0 |-> None,
     tolerance_nm |-> None, range_lo |-> None, range_hi |-> None,
     best_range |-> None, best_result |-> <<>>, mids |-> <<>>, out |-> <<>>]

\* A call of international_mission: its arguments and the list it returns.
MissionCall(range_nm, alternate_nm, cruise_mach, cruise_alt, loiter_2_min, contingency_frac) ==
    [range_nm |-> range_nm, alternate_nm |-> alternate_nm,
     cruise_mach |-> cruise_mach, cruise_alt |-> cruise_alt,
     loiter_2_min |-> loiter_2_min, contingency_frac |-> contingency_frac,
     segments |-> international_mission(range_nm, alternate_nm, cruise_mach,
                                        cruise_alt, loiter_2_min,
                                        contingency_frac)]

\* builder = partial(international_mission, alternate_nm=200,
\*                   cruise_mach=config.cruise_mach,
\*                   cruise_alt=config.cruise_altitude_ft), applied to a range.
mission_builder(cfg, range_nm) ==
    MissionCall(range_nm, 200, cfg.cruise_mach, cfg.cruise_altitude_ft,
                300000, 1000)

\* cfg = copy.deepcopy(config); cfg.segments = segments
Rebuilt(cfg, segments) == [cfg EXCEPT !.segments = segments]

\* Fault: cfg is the caller's object itself, not a copy of it.
AliasedRebuild(cfg, rebuilt) == rebuilt

\* The caller's configuration after cfg, a deep copy of it, was given a new
\* mission: as it was.
ConfigAfterRebuild(cfg, rebuilt) == cfg

Init ==
    /\ config \in Configs
    /\ given = config
    /\ pc = "idle"
    /\ hist = <<>>
    /\ res = <<>>
    /\ ev = <<>>
    /\ sv = NoCall
    /\ fm = NoSearch
    /\ built = <<>>
    /\ prev = <<>>
    /\ err = <<>>

\* The exception a call ends with when the walk over segments raises.
TypeError(call, segments) ==
    <<[raised |-> "TypeError", call |-> call, segment |-> RaisedAt(segments)]>>

\* solve_takeoff_weight(config, w0_guess, tolerance, max_iter, use_ch6_weights):
\* entry and the initialisation of the locals.
Enter(w0_guess, tolerance, max_iter, use_ch6_weights) ==
    /\ pc = "idle"
    /\ sv' = Locals(w0_guess, tolerance, max_iter, use_ch6_weights)
    /\ pc' = IF InRange(0, max_iter) THEN "loop" ELSE "final"
    /\ hist' = <<>>
    /\ res' = <<>>
    /\ ev' = <<>>
    /\ fm' = NoSearch
    /\ built' = <<>>
    /\ err' = <<>>
    /\ UNCHANGED <<config, given>>

\* A solver call with arguments of the caller's choice.
CallSolve(w0_guess, tolerance, max_iter, use_ch6_weights) ==
    /\ Enter(w0_guess, tolerance, max_iter, use_ch6_weights)
    /\ prev' = <<>>

\* What a returned solver call went through and returned.
CallSummary ==
    [guesses |-> [k \in 1..Len(hist) |-> hist[k].w0],
     w0 |-> res[1].w0, converged |-> res[1].converged,
     iterations |-> res[1].iterations]

\* The caller repeats the solver call that has just returned, with the same
\* configuration and the same arguments.
CallAgain ==
    /\ res # <<>>
    /\ Enter(sv.w0_guess, sv.tolerance, sv.max_iter, sv.use_ch6_weights)
    /\ prev' = <<CallSummary>>

\* The locals after the assignments of a pass p, before its exit tests.
AfterPass(sv0, p) ==
    [sv0 EXCEPT !.iterations = sv0.i + 1,
                !.seg_results = p.seg_results,
                !.ld_cruise = p.ld_cruise,
                !.ld_max_val = p.ld_max_val,
                !.wf_frac = p.wf_frac,
                !.we_frac = p.we_frac]

\* One pass of the solver loop.
SolveIter ==
    /\ pc = "loop"
    /\ RaisedAt(config.segments) = 0
    /\ \E p \in {LoopPass(config, sv.use_ch6_weights, sv.w0)} :
          /\ hist' = Append(hist, p)
          /\ IF NonPhysical(p.denom)
             THEN /\ sv' = AfterPass(sv, p)
                  /\ pc' = "final"
             ELSE IF WithinTolerance(p.w0_new, sv.w0, sv.tolerance)
             THEN /\ sv' = [AfterPass(sv, p) EXCEPT !.converged = TRUE,
                                                    !.w0 = p.w0_new]
                  /\ pc' = "final"
             ELSE /\ sv' = [AfterPass(sv, p)
                               EXCEPT !.w0 = DampedUpdate(p.w0_new, sv.w0),
                                      !.i = sv.i + 1]
                  /\ pc' = IF InRange(sv.i + 1, sv.max_iter) THEN "loop"
                                                             ELSE "final"
    /\ UNCHANGED <<config, given, res, ev, fm, built, prev, err>>

\* The final weight breakdown and the return.
SolveFinal ==
    /\ pc = "final"
    /\ RaisedAt(config.segments) = 0
    /\ res' = <<FinalBreakdown(config, sv)>>
    /\ pc' = "idle"
    /\ UNCHANGED <<config, given, sv, hist, ev, fm, built, prev, err>>

\* compute_segment_results raises in the first pass of the loop or, the loop
\* having no pass to run, in the final breakdown: the exception leaves
\* solve_takeoff_weight, which returns nothing.
SolveRaise ==
    /\ pc \in {"loop", "final"}
    /\ RaisedAt(config.segments) # 0
    /\ err' = TypeError("solve_takeoff_weight", config.segments)
    /\ pc' = "idle"
    /\ UNCHANGED <<config, given, sv, hist, res, ev, fm, built, prev>>

\* The w0 of the result the last solver call returned: the fixed weight the
\* caller hands on to the evaluator.
SolvedWeights == {res[j].w0 : j \in 1..Len(res)}

\* evaluate_fixed_w0(config, w0), called by the caller between solver calls:
\* it returns its result, or the walk raises and it returns nothing.
Evaluate(w0) ==
    /\ pc = "idle"
    /\ IF RaisedAt(config.segments) = 0
       THEN /\ ev' = <<[w0 |-> w0, r |-> evaluate_fixed_w0(config, w0)]>>
            /\ err' = <<>>
       ELSE /\ ev' = <<>>
            /\ err' = TypeError("evaluate_fixed_w0", config.segments)
    /\ fm' = NoSearch
    /\ built' = <<>>
    /\ prev' = <<>>
    /\ UNCHANGED <<config, given, pc, sv, hist, res>>

\* The fixed weights the caller searches the range at: a weight of its own
\* choice, or one short of the w0 a converged solver call returned.
SearchWeights ==
    {90000} \cup {res[j].w0 - d : j \in {i \in 1..Len(res) : res[i].converged},
                                  d \in Shortfalls}

\* find_max_range(config, w0, mission_builder, range_lo, range_hi,
\* tolerance_nm): entry.
CallFindMaxRange(w0, b) ==
    /\ pc = "idle"
    /\ fm' = [NoSearch EXCEPT !.w0 = w0,
                              !.range_lo_0 = b.range_lo,
                              !.range_hi_0 = b.range_hi,
                              !.tolerance_nm = b.tolerance_nm,
                              !.range_lo = b.range_lo,
                              !.range_hi = b.range_hi,
                              !.best_range = b.range_lo]
    /\ pc' = "search"
    /\ ev' = <<>>
    /\ built' = <<>>
    /\ prev' = <<>>
    /\ err' = <<>>
    /\ UNCHANGED <<config, given, sv, hist, res>>

\* while (range_hi - range_lo) > tolerance_nm
Searching(f) == (f.range_hi - f.range_lo) * Scale > f.tolerance_nm

\* mid = (range_lo + range_hi) / 2.0, rounded to the nearest representable
\* range, a tie going to the even one as in IEEE 754 arithmetic: between two
\* neighbouring ranges the midpoint is one of the two.
Mid(range_lo, range_hi) ==
    IF (range_lo + range_hi) % 2 = 0 THEN (range_lo + range_hi) \div 2
    ELSE IF ((range_lo + range_hi) \div 2) % 2 = 0
         THEN (range_lo + range_hi) \div 2
         ELSE (range_lo + range_hi) \div 2 + 1

\* Fault: every candidate range is taken to close.
AlwaysCloses(r) == TRUE

\* if result.weight_margin >= 0
Closes(r) == r.weight_margin >= 0

\* Fault: a range that closes becomes the upper end of the bracket.
BisectDownward(f, mid, r) ==
    IF Closes(r)
    THEN [f EXCEPT !.best_result = <<r>>, !.best_range = mid,
                   !.range_hi = mid,
                   !.mids = Append(@, [mid |-> mid, margin |-> r.weight_margin])]
    ELSE [f EXCEPT !.range_lo = mid,
                   !.mids = Append(@, [mid |-> mid, margin |-> r.weight_margin])]

\* Fault: a range that closes raises the lower end of the bracket and is
\* kept as the best result, but best_range is left as it was.
BisectStaleBest(f, mid, r) ==
    IF Closes(r)
    THEN [f EXCEPT !.best_result = <<r>>,
                   !.range_lo = mid,
                   !.mids = Append(@, [mid |-> mid, margin |-> r.weight_margin])]
    ELSE [f EXCEPT !.range_hi = mid,
                   !.mids = Append(@, [mid |-> mid, margin |-> r.weight_margin])]

\* The locals after the body of the loop for the result r at mid.
Bisect(f, mid, r) ==
    IF Closes(r)
    THEN [f EXCEPT !.best_result = <<r>>, !.best_range = mid,
                   !.range_lo = mid,
                   !.mids = Append(@, [mid |-> mid, margin |-> r.weight_margin])]
    ELSE [f EXCEPT !.range_hi = mid,
                   !.mids = Append(@, [mid |-> mid, margin |-> r.weight_margin])]

\* One pass of the loop of find_max_range: the mission is rebuilt at the
\* midpoint on a deep copy of config, and evaluated at the fixed w0.
SearchStep ==
    /\ pc = "search"
    /\ Searching(fm)
    /\ Len(fm.mids) < MaxEvals
    /\ \E b \in {mission_builder(config, Mid(fm.range_lo, fm.range_hi))} :
       \E r \in {evaluate_fixed_w0(Rebuilt(config, b.segments), fm.w0)} :
          /\ built' = <<b>>
          /\ fm' = Bisect(fm, b.range_nm, r)
          /\ config' = ConfigAfterRebuild(config, Rebuilt(config, b.segments))
    /\ UNCHANGED <<given, pc, sv, hist, res, ev, prev, err>>

\* Fault: the fallback is evaluated at the upper end of the bracket.
FallbackAtUpperEnd(f) == f.range_hi

\* The range of the fallback, mission_builder(range_lo).
FallbackRange(f) == f.range_lo

\* The return value of find_max_range.
Returned(f, best_result, best_range) ==
    [f EXCEPT !.best_result = <<best_result>>, !.best_range = best_range,
              !.out = <<[result |-> best_result, range |-> best_range]>>]

\* After the loop: the fallback evaluation when no midpoint closed, and the
\* return.
SearchReturn ==
    /\ pc = "search"
    /\ ~Searching(fm)
    /\ IF fm.best_result = <<>>
       THEN \E b \in {mission_builder(config, FallbackRange(fm))} :
            \E r \in {evaluate_fixed_w0(Rebuilt(config, b.segments), fm.w0)} :
               /\ built' = <<b>>
               /\ fm' = Returned(fm, r, fm.range_lo)
               /\ config' = ConfigAfterRebuild(config, Rebuilt(config, b.segments))
       ELSE /\ fm' = Returned(fm, fm.best_result[1], fm.best_range)
            /\ UNCHANGED <<config, built>>
    /\ pc' = "idle"
    /\ UNCHANGED <<given, sv, hist, res, ev, prev, err>>

Next ==
    \/ \E g \in Weights, t \in Tolerances, m \in IterCaps, u \in BOOLEAN :
          CallSolve(g, t, m, u)
    \/ CallAgain
    \/ SolveIter
    \/ SolveFinal
    \/ SolveRaise
    \/ \E w \in Weights \cup SolvedWeights : Evaluate(w)
    \/ \E w \in SearchWeights, b \in Brackets : CallFindMaxRange(w, b)
    \/ SearchStep
    \/ SearchReturn

Spec == Init /\ [][Next]_vars

\* ------------------------------------------------------------------------
\* international_mission on its own: the caller builds missions
\* ------------------------------------------------------------------------

\* range_nm arguments [nm].
MissionRanges == {50, 500, 1250, 1850, 2550, 3000, 5000}

\* alternate_nm arguments [nm].
Alternates == {100, 200}

\* cruise_mach and cruise_alt arguments: the default cruise in the
\* stratosphere, and a slower one in the troposphere.
CruiseConditions ==
    {[cruise_mach |-> 7800, cruise_alt |-> 41000],
     [cruise_mach |-> 7000, cruise_alt |-> 30000]}

\* loiter_2_min arguments [min].
HoldMinutes == {300000, 450000}

\* contingency_frac arguments.
ContingencyFracs == {500, 1000}

\* international_mission(range_nm, alternate_nm, cruise_mach, cruise_alt,
\* loiter_2_min, contingency_frac), called by the caller.
BuildMission(range_nm, alternate_nm, cc, loiter_2_min, contingency_frac) ==
    /\ pc = "idle"
    /\ built' = <<MissionCall(range_nm, alternate_nm, cc.cruise_mach,
                              cc.cruise_alt, loiter_2_min, contingency_frac)>>
    /\ UNCHANGED <<config, given, pc, sv, hist, res, ev, fm, prev, err>>

NextMission ==
    \E r \in MissionRanges, a \in Alternates, cc \in CruiseConditions,
       h \in HoldMinutes, c \in ContingencyFracs :
          BuildMission(r, a, cc, h, c)

\* The caller holds the North America variant and has made no call yet.
InitMission == Init /\ config = na_composite

SpecMission == InitMission /\ [][NextMission]_vars

\* ------------------------------------------------------------------------
\* Properties
\* ------------------------------------------------------------------------

\* The mission walks the state holds: one per pass of the solver loop, that
\* of the final breakdown and that of the evaluator, each with the weight it
\* started at and the two L/D values it was given.
Walks ==
    {[mode |-> "solve", w_start |-> hist[k].w0,
      results |-> hist[k].seg_results,
      ld_cruise |-> hist[k].ld_cruise, ld_loiter |-> hist[k].ld_max_val] :
        k \in 1..Len(hist)}
    \cup
    {[mode |-> "solve", w_start |-> res[j].w0,
      results |-> res[j].segment_results,
      ld_cruise |-> res[j].ld_cruise, ld_loiter |-> res[j].ld_max] :
        j \in 1..Len(res)}
    \cup
    {[mode |-> "evaluate", w_start |-> ev[j].w0,
      results |-> ev[j].r.segment_results,
      ld_cruise |-> ev[j].r.ld_cruise, ld_loiter |-> ev[j].r.ld_max] :
        j \in 1..Len(ev)}

\* The running weight before segment i of a walk from w_start: w_start
\* times the recorded weight fractions of the segments before i, in order.
RECURSIVE RunningWeight(_, _, _)
RunningWeight(results, w_start, i) ==
    IF i <= 1 THEN w_start
    ELSE MulDiv(RunningWeight(results, w_start, i - 1),
                results[i - 1].weight_fraction, Scale)

\* The fuel_burned of the first n results, summed.
RECURSIVE Burned(_, _)
Burned(results, n) ==
    IF n = 0 THEN 0 ELSE results[n].fuel_burned + Burned(results, n - 1)

\* w_start minus the running weight the walk ends at.
WeightLost(wk) ==
    wk.w_start - RunningWeight(wk.results, wk.w_start, Len(wk.results) + 1)

\* C1: in every walk, of the solver and of the evaluator, the fuel_burned
\* recorded for each segment is the running weight before it times
\* (1 - weight_fraction), the running weight being w_start for the first
\* segment and the weight before times the weight fraction after each.
C1_FuelOfEachSegment ==
    \A wk \in Walks : \A i \in 1..Len(wk.results) :
        wk.results[i].fuel_burned =
            MulDiv(RunningWeight(wk.results, wk.w_start, i),
                   Scale - wk.results[i].weight_fraction, Scale)

\* C1 witness: a walk of the solver and a walk of the evaluator, each with a
\* later segment that burns fuel from a weight already depleted.
C1_Witness ==
    \A m \in {"solve", "evaluate"} : \E wk \in Walks :
        /\ wk.mode = m
        /\ Len(wk.results) >= 3
        /\ wk.results[3].fuel_burned > 0
        /\ RunningWeight(wk.results, wk.w_start, 3) < wk.w_start

\* C2 (as stated): over every walk the fuel_burned of all results sums to
\* exactly w_start minus the final running weight.
C2_FuelSumExact ==
    \A wk \in Walks : Burned(wk.results, Len(wk.results)) = WeightLost(wk)

\* C2 (amended): the sum of fuel_burned and w_start minus the final running
\* weight agree to within the rounding of the walk's arithmetic, one unit in
\* the last place per segment; for an empty segment list both are zero.
C2_FuelSumWithinRounding ==
    \A wk \in Walks :
        /\ Abs(Burned(wk.results, Len(wk.results)) - WeightLost(wk))
              <= Len(wk.results)
        /\ Len(wk.results) = 0 =>
              /\ Burned(wk.results, Len(wk.results)) = 0
              /\ WeightLost(wk) = 0

\* C2 witness: a full nine-leg walk whose fuel sum and weight loss differ by
\* rounding.
C2_Witness ==
    \E wk \in Walks :
        /\ Len(wk.results) = 9
        /\ Burned(wk.results, 9) # WeightLost(wk)

\* C3: every walk returns one SegmentResult per segment of config.segments,
\* in the same order, each with the name and the segment_type of the segment
\* at its position.
C3_OneResultPerSegment ==
    \A wk \in Walks :
        /\ Len(wk.results) = Len(config.segments)
        /\ \A i \in 1..Len(wk.results) :
              /\ wk.results[i].name = config.segments[i].name
              /\ wk.results[i].segment_type = config.segments[i].segment_type

\* C3 witness: a walk over the nine international legs, whose names differ
\* from one position to the next.
C3_Witness ==
    \E wk \in Walks :
        /\ Len(wk.results) = 9
        /\ \A i, j \in 1..9 : i # j => wk.results[i].name # wk.results[j].name

\* The weight fraction, cruise time and L/D that the rule of the walker
\* gives for segment seg, stated type by type.
FractionRule(seg, r, ld_cruise, ld_loiter) ==
    /\ seg.segment_type \in {"WARMUP_TAKEOFF", "LANDING"} =>
          r.weight_fraction = seg.weight_fraction
    /\ seg.segment_type = "CLIMB" /\ seg.weight_fraction # None =>
          r.weight_fraction = seg.weight_fraction
    /\ seg.segment_type = "CLIMB" /\ seg.weight_fraction = None =>
          r.weight_fraction = climb_weight_fraction(config.cruise_mach)
    /\ seg.segment_type \in {"CRUISE", "LOITER"} =>
          \E tsfc \in {config.engine.tsfc_loiter, config.engine.tsfc_cruise},
             ld \in {ld_loiter, ld_cruise} :
             /\ (tsfc = config.engine.tsfc_loiter) <=> seg.use_loiter_sfc
             /\ (ld = ld_loiter) <=> seg.use_max_ld
             /\ r.ld_used = ld
             /\ seg.segment_type = "CRUISE" =>
                   r.weight_fraction =
                       cruise_weight_fraction(seg.range_nm, tsfc,
                           cruise_velocity_fps(config), ld).wf
             /\ seg.segment_type = "LOITER" =>
                   r.weight_fraction =
                       loiter_weight_fraction(seg.endurance_min, tsfc, ld)
    /\ seg.segment_type \notin {"CRUISE", "LOITER"} => r.ld_used = None
    /\ (r.cruise_time_s # None) <=> (seg.segment_type = "CRUISE")

\* C4: in every walk each result follows the dispatch on the segment's type:
\* the literal fraction for WARMUP_TAKEOFF and LANDING; for CLIMB the override
\* when present, else the climb equation at config.cruise_mach; for CRUISE
\* and LOITER the Breguet equation with tsfc_loiter iff use_loiter_sfc and the
\* max L/D iff use_max_ld, that L/D recorded as ld_used; cruise_time_s set
\* for CRUISE segments only.
C4_DispatchByType ==
    \A wk \in Walks : \A i \in 1..Len(wk.results) :
        i <= Len(config.segments) =>
            FractionRule(config.segments[i], wk.results[i],
                         wk.ld_cruise, wk.ld_loiter)

\* C4 witness: a walk of the shuttle mission, which has a climb with an
\* override, a cruise on the loiter SFC, a cruise at max L/D and a loiter on
\* the cruise SFC and cruise L/D, at L/D values that differ.
C4_Witness ==
    \E wk \in Walks :
        /\ config.name = "Shuttle"
        /\ Len(wk.results) = 7
        /\ wk.ld_cruise # wk.ld_loiter
        /\ wk.results[4].ld_used = wk.ld_loiter
        /\ wk.results[5].ld_used = wk.ld_cruise
        /\ wk.results[3].cruise_time_s # None

\* Pass k of the current solver call met the convergence test: a positive
\* denominator and |W0_new - W0| below the tolerance, for its own guess W0.
ConvergingPass(k) ==
    /\ hist[k].denom > 0
    /\ Abs(hist[k].w0_new - hist[k].w0) < sv.tolerance

\* C5: a pass whose denominator 1 - wf_frac - we_frac is not positive is the
\* last pass: no W0_new is computed in it, the loop is left, converged stays
\* false, iterations is the number of that pass, and w0 - in the locals and
\* in the result returned - is the positive guess the pass started with.
C5_NonPhysicalBreak ==
    \A k \in 1..Len(hist) :
        hist[k].denom <= 0 =>
            /\ k = Len(hist)
            /\ hist[k].w0_new = None
            /\ pc # "loop"
            /\ sv.converged = FALSE
            /\ sv.iterations = k
            /\ sv.w0 = hist[k].w0
            /\ \A j \in 1..Len(res) :
                  /\ res[j].converged = FALSE
                  /\ res[j].iterations = k
                  /\ res[j].w0 = hist[k].w0
                  /\ res[j].w0 > 0

\* C5 witness: a call has returned after a non-physical pass that was not
\* its first.
C5_Witness ==
    /\ Len(res) = 1
    /\ Len(hist) >= 2
    /\ hist[Len(hist)].denom <= 0

\* C6: the solver stops at the first pass that meets the convergence test,
\* a pass numbered at most max_iter, and reports its number; and the result
\* has converged = true if and only if some pass met the test.
C6_ConvergedIff ==
    /\ \A k \in 1..Len(hist) :
          ConvergingPass(k) =>
              /\ k = Len(hist)
              /\ k <= sv.max_iter
              /\ pc # "loop"
              /\ sv.converged
              /\ sv.iterations = k
    /\ \A j \in 1..Len(res) :
          /\ res[j].converged <=>
                \E k \in 1..Len(hist) : k <= sv.max_iter /\ ConvergingPass(k)
          /\ res[j].converged => res[j].iterations = Len(hist)

\* C6 witness: a call has returned converged at a pass after passes that
\* did not meet the test.
C6_Witness ==
    /\ Len(res) = 1
    /\ res[1].converged
    /\ Len(hist) >= 3
    /\ ConvergingPass(Len(hist))
    /\ ~ConvergingPass(Len(hist) - 1)

\* The field names of SizingResult.
SizingResultFields ==
    {"config_name", "converged", "iterations", "w0", "we", "wf", "w_crew",
     "w_payload", "we_frac", "wf_frac", "trip_fuel", "reserve_fuel",
     "segment_results", "thrust_to_weight", "wing_loading", "ld_cruise",
     "ld_max", "growth_factor", "weight_margin"}

\* Every field of r is present, and the weights and ratios computed from w0
\* are positive numbers.
FullyPopulated(r) ==
    /\ DOMAIN r = SizingResultFields
    /\ r.w0 > 0 /\ r.we > 0 /\ r.wf >= 0
    /\ r.thrust_to_weight > 0 /\ r.wing_loading > 0
    /\ r.ld_cruise > 0 /\ r.ld_max > 0 /\ r.growth_factor > 0
    /\ Len(r.segment_results) = Len(config.segments)

\* C7: the loop never runs more than max_iter passes; and a call in which no
\* pass met the convergence test and none was non-physical returns, after
\* exactly max_iter passes (max_iter = 0 included), a fully populated result
\* with converged = false and iterations = max_iter.
C7_IterationBudget ==
    /\ sv.max_iter # None => Len(hist) <= sv.max_iter
    /\ \A j \in 1..Len(res) :
          (\A k \in 1..Len(hist) : hist[k].denom > 0 /\ ~ConvergingPass(k)) =>
              /\ Len(hist) = sv.max_iter
              /\ res[j].converged = FALSE
              /\ res[j].iterations = sv.max_iter
              /\ FullyPopulated(res[j])

\* C7 witness: a call with the largest cap has returned after using every
\* pass of it.
C7_Witness ==
    /\ Len(res) = 1
    /\ sv.max_iter = MaxIter
    /\ Len(hist) = MaxIter
    /\ \A k \in 1..Len(hist) : hist[k].denom > 0 /\ ~ConvergingPass(k)

\* C8: whatever path left the loop, the result returned is computed at the
\* w0 returned: thrust_to_weight = total thrust / w0, wing_loading = w0 /
\* wing area, both L/D values from them, segment_results the walk from w0,
\* wf = trapped_fuel_factor * sum of that walk's fuel_burned, we = w0 * the
\* empty-weight fraction at w0, growth_factor = w0 / payload_weight.
C8_BreakdownAtReturnedW0 ==
    \A j \in 1..Len(res) :
        /\ res[j].w0 = sv.w0
        /\ res[j].thrust_to_weight =
              MulDiv(total_max_thrust(config.engine), Scale, res[j].w0)
        /\ res[j].wing_loading = MulDiv(res[j].w0, Scale, config.wing_area_ft2)
        /\ res[j].ld_cruise = ld_from_drag_polar(config, res[j].wing_loading)
        /\ res[j].ld_max = ld_max(config)
        /\ res[j].segment_results =
              compute_segment_results(config, res[j].w0, res[j].ld_cruise,
                                      res[j].ld_max)
        /\ res[j].wf =
              MulDiv(Burned(res[j].segment_results, Len(res[j].segment_results)),
                     config.trapped_fuel_factor, Scale)
        /\ res[j].we_frac =
              SolverEmptyFraction(config, sv.use_ch6_weights, res[j].w0,
                                  res[j].thrust_to_weight, res[j].wing_loading)
        /\ res[j].we = MulDiv(res[j].w0, res[j].we_frac, Scale)
        /\ res[j].growth_factor = MulDiv(res[j].w0, Scale, config.payload_weight)

\* C8 witness: a call has returned a w0 that differs from the guess of its
\* last pass, with a walk and an empty-weight fraction that differ from what
\* that pass left.
C8_Witness ==
    /\ Len(res) = 1
    /\ Len(hist) >= 1
    /\ res[1].w0 # hist[Len(hist)].w0
    /\ res[1].segment_results # hist[Len(hist)].seg_results
    /\ res[1].we_frac # hist[Len(hist)].we_frac

\* C9: the evaluator's result has iterations = 0 and the w0 it was given,
\* weight_margin = w0 - we - wf - crew_weight - payload_weight, and
\* converged = true if and only if weight_margin >= 0; a weight that cannot
\* close the mission gives such a result with a negative weight_margin.
C9_EvaluatorMargin ==
    \A j \in 1..Len(ev) :
        /\ ev[j].r.iterations = 0
        /\ ev[j].r.w0 = ev[j].w0
        /\ ev[j].r.weight_margin =
              ev[j].w0 - ev[j].r.we - ev[j].r.wf
              - config.crew_weight - config.payload_weight
        /\ ev[j].r.converged <=> (ev[j].r.weight_margin >= 0)
        /\ FullyPopulated(ev[j].r)

\* C9 witness: the evaluator has returned a result with a negative margin.
C9_Witness ==
    /\ Len(ev) = 1
    /\ ev[1].r.weight_margin < 0
    /\ ev[1].r.converged = FALSE

\* Pass p of the solver loop and the evaluator's result r agree on
\* thrust-to-weight, wing loading, both L/D values, the per-segment results
\* and the total fuel.
SameLoadsAndFuel(p, r) ==
    /\ p.tw = r.thrust_to_weight
    /\ p.ws = r.wing_loading
    /\ p.ld_cruise = r.ld_cruise
    /\ p.ld_max_val = r.ld_max
    /\ p.seg_results = r.segment_results
    /\ p.total_fuel = r.wf
    /\ p.wf_frac = r.wf_frac

\* C10 (as stated): a solver pass at guess w and the evaluator at weight w
\* agree on all of these and on the empty-weight fraction, whichever
\* regression the solver's caller selected.
C10_EvaluatorEqualsPass ==
    \A j \in 1..Len(ev), k \in 1..Len(hist) :
        hist[k].w0 = ev[j].w0 =>
            /\ SameLoadsAndFuel(hist[k], ev[j].r)
            /\ hist[k].we_frac = ev[j].r.we_frac

\* C10 (amended): a solver pass at guess w and the evaluator at weight w
\* agree on thrust-to-weight, wing loading, both L/D values, per-segment and
\* total fuel; they agree on the empty-weight fraction when the solver was
\* called with the refined regression, the only one the evaluator has.
C10_EvaluatorEqualsRefinedPass ==
    \A j \in 1..Len(ev), k \in 1..Len(hist) :
        hist[k].w0 = ev[j].w0 =>
            /\ SameLoadsAndFuel(hist[k], ev[j].r)
            /\ sv.use_ch6_weights => hist[k].we_frac = ev[j].r.we_frac
            /\ ev[j].r.we_frac =
                  empty_weight_fraction_ch6(ev[j].w0, config,
                      ev[j].r.thrust_to_weight, ev[j].r.wing_loading)

\* C10 witness: the evaluator and a pass of a solver call with the refined
\* regression have run at the same weight over the nine-leg mission.
C10_Witness ==
    \E j \in 1..Len(ev), k \in 1..Len(hist) :
        /\ hist[k].w0 = ev[j].w0
        /\ sv.use_ch6_weights
        /\ Len(hist[k].seg_results) = 9

\* The guess the loop holds after pass k: that of pass k + 1, or, after the
\* last pass run, the local w0.
GuessAfter(k) == IF k < Len(hist) THEN hist[k + 1].w0 ELSE sv.w0

\* x lies between a and b, ends included.
Between(x, a, b) == (a <= x /\ x <= b) \/ (b <= x /\ x <= a)

\* C19: after a pass that neither converged nor was non-physical the next
\* guess is 0.75 * W0_new + 0.25 * W0 (to the pound: four times the guess is
\* within the rounding of 3 * W0_new + W0) and lies between the old guess
\* and W0_new; after a converging pass the local w0, and the w0 returned, is
\* the undamped W0_new, less than the tolerance away from that pass's guess.
C19_DampedUpdate ==
    /\ \A k \in 1..Len(hist) :
          /\ (hist[k].denom > 0 /\ ~ConvergingPass(k)) =>
                /\ Abs(4 * GuessAfter(k) - (3 * hist[k].w0_new + hist[k].w0)) <= 4
                /\ Between(GuessAfter(k), hist[k].w0, hist[k].w0_new)
          /\ (hist[k].denom > 0 /\ ConvergingPass(k)) =>
                /\ sv.w0 = hist[k].w0_new
                /\ Abs(sv.w0 - hist[k].w0) < sv.tolerance
                /\ \A j \in 1..Len(res) : res[j].w0 = hist[k].w0_new

\* C19 witness: a call has returned converged after two damped updates, the
\* first of which moved the guess strictly between the old guess and W0_new.
C19_Witness ==
    /\ Len(res) = 1
    /\ res[1].converged
    /\ Len(hist) >= 3
    /\ res[1].w0 = hist[Len(hist)].w0_new
    /\ hist[2].w0 # hist[1].w0
    /\ hist[2].w0 # hist[1].w0_new
    /\ Between(hist[2].w0, hist[1].w0, hist[1].w0_new)

\* The SizingResults the state holds: that of the last solver call and that
\* of the last evaluation.
Results == {res[j] : j \in 1..Len(res)} \cup {ev[j].r : j \in 1..Len(ev)}

\* C20: in every SizingResult, of the solver and of the evaluator, wf is
\* trapped_fuel_factor times the fuel burned over all segments, trip_fuel is
\* the fuel burned over the first reserve_after_segment segments without the
\* factor, and reserve_fuel is wf - trip_fuel; when reserve_after_segment is
\* at least the number of segments trip_fuel is the fuel of the whole
\* mission.
C20_FuelSplit ==
    \A r \in Results :
        /\ r.wf = MulDiv(Burned(r.segment_results, Len(r.segment_results)),
                         config.trapped_fuel_factor, Scale)
        /\ config.reserve_after_segment < Len(r.segment_results) =>
              r.trip_fuel = Burned(r.segment_results, config.reserve_after_segment)
        /\ config.reserve_after_segment >= Len(r.segment_results) =>
              r.trip_fuel = Burned(r.segment_results, Len(r.segment_results))
        /\ r.reserve_fuel = r.wf - r.trip_fuel

\* C20 witness: a result over the nine-leg mission, whose reserve starts
\* after the fifth leg: trip fuel, then more fuel burned in the reserve
\* legs, then the trapped-fuel allowance on top.
C20_Witness ==
    \E r \in Results :
        /\ Len(r.segment_results) = 9
        /\ config.reserve_after_segment = 5
        /\ 0 < r.trip_fuel
        /\ r.trip_fuel < Burned(r.segment_results, 9)
        /\ Burned(r.segment_results, 9) < r.wf
        /\ r.reserve_fuel > Burned(r.segment_results, 9) - r.trip_fuel

\* The evaluations made at the w0 a converged solver call returned.
ClosureChecks == {j \in 1..Len(ev) : \E i \in 1..Len(res) : res[i].converged /\ ev[j].w0 = res[i].w0}

\* What the fuel and empty-weight fractions, kept to four decimal places,
\* leave undetermined of a weight near w0 [lbs].
MarginSlack(w0) == w0 \div Scale + 2

\* C11: the evaluator, run at the w0 a converged solver call returned,
\* reports a weight margin of magnitude at most the solver tolerance (plus
\* the rounding of the model's fractions), whichever empty-weight regression
\* the solver was called with.
C11_SolvedWeightCloses ==
    \A j \in ClosureChecks :
        Abs(ev[j].r.weight_margin) <= sv.tolerance + MarginSlack(ev[j].w0)

\* C11 (amended): the same bound, for solver calls with the refined
\* regression, the one the evaluator computes the empty weight with.
C11_RefinedSolvedWeightCloses ==
    \A j \in ClosureChecks :
        sv.use_ch6_weights =>
            Abs(ev[j].r.weight_margin) <= sv.tolerance + MarginSlack(ev[j].w0)

\* C11 witness: a solver call with the refined regression converged on the
\* nine-leg mission after damped passes, and the evaluator has run at the
\* weight it returned.
C11_Witness ==
    \E j \in ClosureChecks :
        /\ sv.use_ch6_weights
        /\ Len(hist) >= 3
        /\ Len(ev[j].r.segment_results) = 9
        /\ ev[j].r.w0 = res[1].w0

\* The midpoints a search evaluated at which the mission closed.
FeasibleMids(f) == {f.mids[k].mid : k \in {i \in 1..Len(f.mids) : f.mids[i].margin >= 0}}

\* The evaluation of config at w0 with the mission rebuilt by the mission
\* builder at range_nm.
EvaluationAt(range_nm, w0) ==
    evaluate_fixed_w0(Rebuilt(config, mission_builder(config, range_nm).segments), w0)

\* C12: a search that evaluated at least one midpoint with margin >= 0
\* returns the largest such midpoint, which is the final lower end of the
\* bracket, and with it exactly the evaluation of the mission rebuilt at
\* that range; that result has weight_margin >= 0 and converged = true.
C12_LargestFeasibleMidpoint ==
    \A j \in 1..Len(fm.out) :
        FeasibleMids(fm) # {} =>
            /\ fm.out[j].range \in FeasibleMids(fm)
            /\ \A m \in FeasibleMids(fm) : m <= fm.out[j].range
            /\ fm.out[j].range = fm.range_lo
            /\ fm.out[j].result = EvaluationAt(fm.out[j].range, fm.w0)
            /\ fm.out[j].result.weight_margin >= 0
            /\ fm.out[j].result.converged

\* C12 witness: a search has returned after midpoints that closed and
\* midpoints that did not, the last one evaluated being one that did not.
C12_Witness ==
    /\ Len(fm.out) = 1
    /\ Cardinality(FeasibleMids(fm)) >= 2
    /\ Len(fm.mids) >= 4
    /\ fm.mids[Len(fm.mids)].margin < 0
    /\ fm.out[1].range > fm.range_lo_0

\* C13: a search in which no evaluated midpoint closed - the bracket no wider
\* than tolerance_nm, where no midpoint is evaluated, included - does not
\* raise: it returns the original range_lo and the evaluation of the mission
\* rebuilt at that range, whether or not it closes there.
C13_FallbackAtRangeLo ==
    /\ (pc = "search" /\ ~Searching(fm) /\ FeasibleMids(fm) = {}) =>
          /\ fm.best_result = <<>>
          /\ fm.range_lo = fm.range_lo_0
    /\ (pc = "idle" /\ fm # NoSearch /\ FeasibleMids(fm) = {}) =>
          /\ err = <<>>
          /\ Len(fm.out) = 1
          /\ fm.out[1].range = fm.range_lo_0
          /\ fm.out[1].result = EvaluationAt(fm.range_lo_0, fm.w0)
          /\ fm.out[1].result.converged = (fm.out[1].result.weight_margin >= 0)

\* C13 witness: a search has returned the original range_lo after two
\* midpoints, neither of which closed, with a result that does not close
\* either.
C13_Witness ==
    /\ Len(fm.out) = 1
    /\ Len(fm.mids) = 2
    /\ FeasibleMids(fm) = {}
    /\ fm.out[1].range = fm.range_lo_0
    /\ fm.out[1].result.weight_margin < 0
    /\ ~fm.out[1].result.converged

\* The design range of the caller's configuration: the range of the third
\* leg of its mission, the cruise to the destination.
DesignRange == config.segments[3].range_nm

\* The caller's mission is the one the mission builder builds at the design
\* range, and the last solver call converged on it.
SizedForDesignMission ==
    /\ Len(config.segments) = 9
    /\ config.segments = mission_builder(config, DesignRange).segments
    /\ Len(res) = 1
    /\ res[1].converged

\* C14: a search at a fixed W0 strictly below the W0 the solver converged to
\* for the design mission, with the same mission builder, returns a range
\* strictly less than the design range.
C14_ShortOfDesignRange ==
    \A j \in 1..Len(fm.out) :
        (SizedForDesignMission /\ fm.w0 < res[1].w0) =>
            fm.out[j].range < DesignRange

\* C14 (amended): such a search returns a range strictly less than the
\* design range when the design mission does not close at the fixed W0 (W0
\* is below the converged W0 by more than the solver left it from the fixed
\* point) and the bracket starts below the design range.
C14_ShortOfDesignRangeWhenOpen ==
    \A j \in 1..Len(fm.out) :
        (/\ SizedForDesignMission
         /\ fm.w0 < res[1].w0
         /\ evaluate_fixed_w0(config, fm.w0).weight_margin < 0
         /\ fm.range_lo_0 < DesignRange) =>
            fm.out[j].range < DesignRange

\* C14 witness: the solver converged with the refined regression, and a
\* search 1000 lb below that weight, where the design mission does not
\* close, over a bracket holding the design range, has returned a midpoint
\* that closed and lies below the design range.
C14_Witness ==
    /\ SizedForDesignMission
    /\ sv.use_ch6_weights
    /\ Len(fm.out) = 1
    /\ fm.w0 = res[1].w0 - 1000
    /\ fm.range_lo_0 < DesignRange
    /\ DesignRange < fm.range_hi_0
    /\ Len(fm.mids) >= 4
    /\ fm.out[1].range \in FeasibleMids(fm)
    /\ fm.out[1].range < DesignRange

\* C15: no call of solve_takeoff_weight, evaluate_fixed_w0 or find_max_range
\* modifies the configuration it is given: the mission, the engine and every
\* other field of the caller's configuration stay as the caller built them,
\* the search putting each candidate mission on a deep copy only.
C15_ConfigNeverModified ==
    /\ config = given
    /\ config.segments = given.segments
    /\ config.engine = engine

\* C15 witness: a solver call has returned and a search after it has
\* returned, having rebuilt the mission several times, last at a range other
\* than that of the caller's mission.
C15_Witness ==
    /\ Len(res) = 1
    /\ Len(fm.out) = 1
    /\ Len(fm.mids) >= 2
    /\ Len(built) = 1
    /\ built[1].segments # config.segments
    /\ config.segments = given.segments

InternationalProfile ==
    <<"WARMUP_TAKEOFF", "CLIMB", "CRUISE", "LOITER", "LANDING",
      "CLIMB", "CRUISE", "LOITER", "LANDING">>

\* The cruise time of the destination leg of the call b: range_nm in feet
\* over the cruise velocity [s].
DestinationCruiseTime(b) ==
    MulDiv(RangeFeet(b.range_nm), Scale * Scale,
           _cruise_velocity_fps(b.cruise_mach, b.cruise_alt))

\* C17: international_mission returns exactly nine segments, of the types
\* WARMUP_TAKEOFF, CLIMB, CRUISE, LOITER, LANDING, CLIMB, CRUISE, LOITER,
\* LANDING in this order; the first cruise covers range_nm, the second
\* alternate_nm, the second loiter lasts loiter_2_min, and the first loiter
\* lasts contingency_frac times the cruise time of the destination leg
\* (held, like every endurance, in minutes).
C17_InternationalProfile ==
    \A q \in 1..Len(built) :
        /\ Len(built[q].segments) = 9
        /\ [k \in 1..9 |-> built[q].segments[k].segment_type] = InternationalProfile
        /\ built[q].segments[3].range_nm = built[q].range_nm
        /\ built[q].segments[7].range_nm = built[q].alternate_nm
        /\ built[q].segments[8].endurance_min = built[q].loiter_2_min
        /\ built[q].segments[4].endurance_min =
              MulDiv(FMul(DestinationCruiseTime(built[q]),
                          built[q].contingency_frac), 1, 60)

\* C17 witness: a mission has been built with none of the defaults: 2550 nm
\* to the destination, 100 nm to the alternate, Mach 0.70 at 30000 ft, a
\* 45 min hold and 5 % contingency, which gives a first loiter of some
\* minutes.
C17_Witness ==
    /\ Len(built) = 1
    /\ built[1].range_nm = 2550
    /\ built[1].alternate_nm = 100
    /\ built[1].cruise_alt = 30000
    /\ built[1].loiter_2_min = 450000
    /\ built[1].contingency_frac = 500
    /\ Len(built[1].segments) = 9
    /\ built[1].segments[4].endurance_min > 10 * Scale

\* A segment lacks the field its type needs: a CRUISE without range_nm, a
\* LOITER without endurance_min, a WARMUP_TAKEOFF or LANDING without
\* weight_fraction.
Malformed(seg) ==
    \/ seg.segment_type = "CRUISE" /\ seg.range_nm = None
    \/ seg.segment_type = "LOITER" /\ seg.endurance_min = None
    \/ seg.segment_type \in {"WARMUP_TAKEOFF", "LANDING"} /\ seg.weight_fraction = None

\* The malformed legs of the caller's mission.
MalformedLegs == {k \in 1..Len(config.segments) : Malformed(config.segments[k])}

\* C18: over a mission with a malformed segment every walk fails at the
\* first such segment with an error, in the solver and in the evaluator
\* alike: the call ends with a TypeError naming that segment, and no pass,
\* no result and no evaluation is ever produced from that mission - the
\* error is not caught, the walk is not retried, and no default or earlier
\* value stands in for the missing field.
C18_MalformedSegmentRaises ==
    MalformedLegs # {} =>
        /\ hist = <<>>
        /\ res = <<>>
        /\ ev = <<>>
        /\ sv.iterations = 0
        /\ sv.seg_results = <<>>
        /\ \A e \in 1..Len(err) :
              /\ err[e].raised = "TypeError"
              /\ err[e].segment \in MalformedLegs
              /\ \A k \in MalformedLegs : err[e].segment <= k
        /\ (pc = "idle" /\ fm = NoSearch /\ sv.w0_guess # None) => Len(err) = 1

\* C18 witness: a solver call on a mission whose fourth leg is a cruise
\* without range_nm has ended with the TypeError raised at that leg, the
\* three legs before it being well formed.
C18_Witness ==
    /\ MalformedLegs = {4}
    /\ config.segments[4].segment_type = "CRUISE"
    /\ pc = "idle"
    /\ Len(err) = 1
    /\ err[1].call = "solve_takeoff_weight"
    /\ err[1].segment = 4
    /\ res = <<>>

\* The number of halvings that bring a width w to at most t, both in
\* 1/Scale nm and t positive: the least n with w <= t * 2^n.
RECURSIVE Halvings(_, _)
Halvings(w, t) == IF w <= t THEN 0 ELSE 1 + Halvings(w, 2 * t)

\* The passes a search may need: the halvings from its initial bracket to
\* its tolerance.
PassBound(f) == Halvings((f.range_hi_0 - f.range_lo_0) * Scale, f.tolerance_nm)

\* The next pass of the loop evaluates a range strictly inside the bracket.
MidInside(f) ==
    /\ f.range_lo < Mid(f.range_lo, f.range_hi)
    /\ Mid(f.range_lo, f.range_hi) < f.range_hi

\* C21: a search over a finite bracket with a positive tolerance terminates:
\* every pass evaluates one midpoint and halves the bracket, so that after k
\* passes the width is the initial width over 2^k, a pass still to run
\* shrinks the bracket, and the passes - one evaluation each - never number
\* more than the halvings that bring the initial width to the tolerance.
C21_SearchTerminates ==
    fm.tolerance_nm # None =>
        /\ fm.tolerance_nm > 0
        /\ (fm.range_hi - fm.range_lo) * 2^Len(fm.mids) = fm.range_hi_0 - fm.range_lo_0
        /\ (pc = "search" /\ Searching(fm)) => MidInside(fm)
        /\ Len(fm.mids) <= PassBound(fm)

\* C21, for tolerances no finer than the ranges the arithmetic tells apart:
\* the same statement for searches whose tolerance_nm is at least the
\* distance between two neighbouring ranges.
C21_TerminatesAboveResolution ==
    (fm.tolerance_nm # None /\ fm.tolerance_nm >= Scale) =>
        /\ (fm.range_hi - fm.range_lo) * 2^Len(fm.mids) = fm.range_hi_0 - fm.range_lo_0
        /\ (pc = "search" /\ Searching(fm)) => MidInside(fm)
        /\ Len(fm.mids) <= PassBound(fm)
        /\ (pc = "search" /\ ~Searching(fm)) => Len(fm.mids) = PassBound(fm)

\* C21 witness: a search with a tolerance finer than the ranges has run more
\* passes than the halvings that reach its tolerance, and its next pass
\* evaluates an end of the bracket, the range the last two passes evaluated:
\* the bracket, two neighbouring ranges wide, stays as it is.
C21_Witness ==
    /\ pc = "search"
    /\ Searching(fm)
    /\ fm.tolerance_nm > 0
    /\ Len(fm.mids) > PassBound(fm)
    /\ fm.range_hi = fm.range_lo + 1
    /\ Mid(fm.range_lo, fm.range_hi) \in {fm.range_lo, fm.range_hi}
    /\ fm.mids[Len(fm.mids)].mid = Mid(fm.range_lo, fm.range_hi)
    /\ fm.mids[Len(fm.mids) - 1].mid = Mid(fm.range_lo, fm.range_hi)

\* The midpoints of the search that did not close.
InfeasibleMids == {k \in 1..Len(fm.mids) : fm.mids[k].margin < 0}

\* The bracket of the search has its range_lo below its range_hi, and its
\* tolerance is no finer than the ranges the arithmetic tells apart.
ResolvedSearch ==
    /\ fm.range_lo_0 < fm.range_hi_0
    /\ fm.tolerance_nm >= Scale

PositiveInputs ==
    /\ sv.w0_guess # None
    /\ sv.w0_guess > 0
    /\ config.crew_weight + config.payload_weight > 0

\* C23: in solve_takeoff_weight, for a positive initial guess and a positive
\* crew_weight + payload_weight, the W0 guess is strictly positive at the
\* start of every pass of the loop and at the final breakdown: every W0_new
\* computed from a positive denominator is positive, every guess a pass
\* started from is positive, the guess the locals hold is positive, and so is
\* the w0 of the result, by which the final breakdown divides.
C23_GuessStaysPositive ==
    PositiveInputs =>
        /\ sv.w0 > 0
        /\ \A k \in 1..Len(hist) :
              /\ hist[k].w0 > 0
              /\ hist[k].denom > 0 => hist[k].w0_new > 0
        /\ \A j \in 1..Len(res) : res[j].w0 > 0

\* C23 witness: a call has returned after at least two damped updates, the
\* first from a W0_new below the guess, which lowered the guess, and after a
\* later pass whose W0_new was above its guess.
C23_Witness ==
    /\ PositiveInputs
    /\ Len(res) = 1
    /\ Len(hist) >= 3
    /\ hist[1].denom > 0
    /\ hist[1].w0_new < hist[1].w0
    /\ hist[2].w0 < hist[1].w0
    /\ \E k \in 2..Len(hist) : hist[k].denom > 0 /\ hist[k].w0_new > hist[k].w0
    /\ res[1].w0 > 0

=============================================================================
